---- MODULE Spec2Model ----
(***************************************************************************)
(* Model of github.com/soypat/schedule: the strict engine GroupSync and    *)
(* the loose engine GroupLoose, polled by a caller that supplies "now".    *)
(*                                                                         *)
(* Instants are integers; the zero value of time.Time is the instant 0,    *)
(* and durations are integers (nanoseconds).  Table indices are the Go     *)
(* 0-based indices, so action i of the code is actions[i + 1] here.        *)
(***************************************************************************)
EXTENDS Integers, Sequences, FiniteSets, TLC

\* ------------------------------------------------------------------ bounds
MaxLen == 3
MaxDur == 2
MaxIter == 2
MaxT == 6
MaxStart == 1
MaxTrig == 5
MaxNewLen == 2
MaxStep == 2

\* ------------------------------------------------------- program constants
Millisecond == 1000000
ZeroTime == 0
ZeroValue == 0
Infinite == -1

Nil == "nil"
\* The nil pointer a constructor returns in place of a sequencer.
NilGroup == [nil |-> TRUE]
errBeginNotCalled == "ScheduleNext called before Begin"
errMissedAction == "missed action"
errGroupFailed == "group failed"
ErrSmallDuration == "small duration"
errZeroDuration == "zero duration in GroupSync"
errBadIterations == "zero or negative iterations"
errEmptyActions == "empty actions"
errNegativeDuration == "negative action duration"
errUnexpectedNextIdx == "unexpected nextIdx"

\* kind   which engine was constructed ("sync", "loose", or "both" where the
\*        two are run side by side)
\* input  what was handed to the constructor: [actions, cfg]
\* gs, gl the GroupSync / GroupLoose object (NilGroup: not constructed)
\* op     the last call made by the caller: [name, at]
\* res    what the last ScheduleNext returned
\* h      what the caller has observed since the last Begins (history)
\* tw     a second sequencer, built afresh at every Begins and polled alike
\* newErr the error each constructor returned: [sync, loose]
VARIABLES kind, input, gs, gl, op, res, h, tw, newErr

vars == <<kind, input, gs, gl, op, res, h, tw, newErr>>

\* ---------------------------------------------------------------- helpers
Instants == (ZeroTime - 1)..MaxT
\* The zero instant and one other; one iteration, several, and unbounded.
StartInstants == {ZeroTime, MaxStart}
IterationChoices == {1, MaxIter, Infinite}

\* type Action[T any] struct { Duration; Value }
Action(d, v) == [Duration |-> d, Value |-> v]

\* time.Time.IsZero
IsZero(t) == t = ZeroTime

\* time.Time.Sub
Sub(a, b) == a - b

\* Go's integer remainder a % b (truncated division: the sign of a).
Rem(a, b) == IF a >= 0 THEN a % b ELSE -((-a) % b)

\* The four return values (v, ok, next, err) of ScheduleNext.
Result(v, ok, next, err) == [v |-> v, ok |-> ok, next |-> next, err |-> err]

\* Tables as the tests build them: values 1..n in table order.
TablesWith(durs) ==
  UNION { { [i \in 1..n |-> Action(d[i], i)] : d \in [1..n -> durs] } : n \in 1..MaxLen }

SyncTables == TablesWith(1..MaxDur)
LooseTables == TablesWith(0..MaxDur)

\* ------------------------------------------------------ shared pure code
\* Mutant: a duration of exactly one millisecond counts as small.
RECURSIVE M_actionsDurationFrom_SmallInclusive(_, _, _, _, _)
M_actionsDurationFrom_SmallInclusive(actions, canZero, i, duration, hasSmallDuration) ==
  IF i > Len(actions)
    THEN [duration |-> duration,
          err |-> IF hasSmallDuration THEN ErrSmallDuration ELSE Nil]
    ELSE LET v == actions[i] IN
      IF ~canZero /\ v.Duration = 0 THEN [duration |-> 0, err |-> errZeroDuration]
      ELSE IF v.Duration < 0 THEN [duration |-> 0, err |-> errNegativeDuration]
      ELSE M_actionsDurationFrom_SmallInclusive(actions, canZero, i + 1,
             duration + v.Duration, hasSmallDuration \/ v.Duration <= Millisecond)

RECURSIVE actionsDurationFrom(_, _, _, _, _)
actionsDurationFrom(actions, canZero, i, duration, hasSmallDuration) ==
  IF i > Len(actions)
    THEN [duration |-> duration,
          err |-> IF hasSmallDuration THEN ErrSmallDuration ELSE Nil]
    ELSE LET v == actions[i] IN
      IF ~canZero /\ v.Duration = 0 THEN [duration |-> 0, err |-> errZeroDuration]
      ELSE IF v.Duration < 0 THEN [duration |-> 0, err |-> errNegativeDuration]
      ELSE actionsDurationFrom(actions, canZero, i + 1, duration + v.Duration,
                               hasSmallDuration \/ v.Duration < Millisecond)

\* Mutant: the first action is left out of the sum.
M_actionsDuration_SkipsFirst(actions, canZero) ==
  actionsDurationFrom(actions, canZero, 2, 0, FALSE)

\* Mutant: a zero duration is an error whatever canZero says.
M_actionsDuration_NeverZero(actions, canZero) ==
  actionsDurationFrom(actions, FALSE, 1, 0, FALSE)

actionsDuration(actions, canZero) ==
  actionsDurationFrom(actions, canZero, 1, 0, FALSE)

\* Mutant: an action's window taken to include its end instant.
RECURSIVE M_currentIdxFrom_Inclusive(_, _, _, _)
M_currentIdxFrom_Inclusive(actions, elapsed, i, endOfAction) ==
  IF i >= Len(actions)
    THEN [idx |-> -1, next |-> 0]
    ELSE LET end == endOfAction + actions[i + 1].Duration IN
      IF elapsed <= end
        THEN [idx |-> i, next |-> end - elapsed]
        ELSE M_currentIdxFrom_Inclusive(actions, elapsed, i + 1, end)

RECURSIVE currentIdxFrom(_, _, _, _)
currentIdxFrom(actions, elapsed, i, endOfAction) ==
  IF i >= Len(actions)
    THEN [idx |-> -1, next |-> 0]
    ELSE LET end == endOfAction + actions[i + 1].Duration IN
      IF elapsed < end
        THEN [idx |-> i, next |-> end - elapsed]
        ELSE currentIdxFrom(actions, elapsed, i + 1, end)

\* Mutant of currentIdx.
M_currentIdx_Inclusive(actions, elapsed) ==
  M_currentIdxFrom_Inclusive(actions, elapsed, 0, 0)

\* Mutant: next is the whole duration of the action found, not what is left.
RECURSIVE M_currentIdxFrom_WholeDuration(_, _, _, _)
M_currentIdxFrom_WholeDuration(actions, elapsed, i, endOfAction) ==
  IF i >= Len(actions)
    THEN [idx |-> -1, next |-> 0]
    ELSE LET end == endOfAction + actions[i + 1].Duration IN
      IF elapsed < end
        THEN [idx |-> i, next |-> actions[i + 1].Duration]
        ELSE M_currentIdxFrom_WholeDuration(actions, elapsed, i + 1, end)

\* Mutant of currentIdx.
M_currentIdx_WholeDuration(actions, elapsed) ==
  M_currentIdxFrom_WholeDuration(actions, elapsed, 0, 0)

\* Mutant: every action's window is measured from the start of the cycle,
\* the durations of the actions before it are not added up.
RECURSIVE M_currentIdxFrom_NoPrefixSum(_, _, _, _)
M_currentIdxFrom_NoPrefixSum(actions, elapsed, i, endOfAction) ==
  IF i >= Len(actions)
    THEN [idx |-> -1, next |-> 0]
    ELSE LET end == actions[i + 1].Duration IN
      IF elapsed < end
        THEN [idx |-> i, next |-> end - elapsed]
        ELSE M_currentIdxFrom_NoPrefixSum(actions, elapsed, i + 1, end)

\* Mutant of currentIdx.
M_currentIdx_NoPrefixSum(actions, elapsed) ==
  M_currentIdxFrom_NoPrefixSum(actions, elapsed, 0, 0)

currentIdx(actions, elapsed) == currentIdxFrom(actions, elapsed, 0, 0)

\* ---------------------------------------------------------- strict engine
\* Mutant: an iteration count of 0 is let through.
M_NewGroupSync_AcceptsZeroIterations(actions, cfg) ==
  LET d == actionsDuration(actions, FALSE) IN
  IF d.err # Nil /\ d.err # ErrSmallDuration THEN [g |-> NilGroup, err |-> d.err]
  ELSE IF Len(actions) = 0 THEN [g |-> NilGroup, err |-> errEmptyActions]
  ELSE IF cfg.Iterations < 0 /\ cfg.Iterations # -1
    THEN [g |-> NilGroup, err |-> errBadIterations]
  ELSE [g |-> [start |-> ZeroTime, elapsedToRestart |-> 0, duration |-> d.duration,
               lastIdx |-> 0, actions |-> actions, iterations |-> cfg.Iterations,
               failed |-> FALSE],
        err |-> d.err]

NewGroupSync(actions, cfg) ==
  LET d == actionsDuration(actions, FALSE) IN
  IF d.err # Nil /\ d.err # ErrSmallDuration THEN [g |-> NilGroup, err |-> d.err]
  ELSE IF Len(actions) = 0 THEN [g |-> NilGroup, err |-> errEmptyActions]
  ELSE IF cfg.Iterations <= 0 /\ cfg.Iterations # -1
    THEN [g |-> NilGroup, err |-> errBadIterations]
  ELSE [g |-> [start |-> ZeroTime, elapsedToRestart |-> 0, duration |-> d.duration,
               lastIdx |-> 0, actions |-> actions, iterations |-> cfg.Iterations,
               failed |-> FALSE],
        err |-> d.err]

\* Mutant: Begins that leaves the failed flag as it is.
M_SyncBegins_KeepsFailed(g, start) ==
  [g EXCEPT !.start = start, !.elapsedToRestart = 0, !.lastIdx = -1]

GroupSync_Begins(g, start) ==
  [g EXCEPT !.start = start, !.elapsedToRestart = 0, !.lastIdx = -1, !.failed = FALSE]

GroupSync_StartTime(g) == g.start

GroupSync_Duration(g) == g.duration

GroupSync_Iterations(g) == g.iterations

\* Mutant: the comparison with the total run time the wrong way round.
M_restartActive_Inverted(g, elapsed) ==
  g.iterations = -1
    \/ (g.iterations > 1 /\ elapsed > g.iterations * GroupSync_Duration(g))

\* Mutant: only the unbounded setting wraps around; a positive count does not.
M_restartActive_OnlyUnbounded(g, elapsed) == g.iterations = -1

\* Mutant: the sentinel -1 is not taken to mean "run forever".
M_restartActive_NoSentinel(g, elapsed) ==
  g.iterations > 1 /\ elapsed < g.iterations * GroupSync_Duration(g)

\* Mutant: repetition is still active at the very end of the last cycle.
M_restartActive_InclusiveEnd(g, elapsed) ==
  g.iterations = -1
    \/ (g.iterations > 1 /\ elapsed <= g.iterations * GroupSync_Duration(g))

\* restartActive of scheduleNext
restartActive(g, elapsed) ==
  g.iterations = -1
    \/ (g.iterations > 1 /\ elapsed < g.iterations * GroupSync_Duration(g))

\* Mutant: the test for a missed action leaves out the wrap-around case.
M_missedAction_NoWrapCase(g, nextIdx, restart) ==
  nextIdx # -1 /\ ~restart /\ nextIdx # g.lastIdx + 1

\* The "missed action" test of scheduleNext.
missedAction(g, nextIdx, restart) ==
  \/ (nextIdx # -1 /\ ~restart /\ nextIdx # g.lastIdx + 1)
  \/ (nextIdx # -1 /\ restart /\ nextIdx # Rem(g.lastIdx + 1, Len(g.actions)))

\* Mutant: the test for the next action leaves out the wrap-around case.
M_timeForNext_NoWrapCase(g, nextIdx, restart) ==
  nextIdx = g.lastIdx + 1

\* The "it is time for the next action" test of scheduleNext.
timeForNext(g, nextIdx, restart) ==
  \/ nextIdx = g.lastIdx + 1
  \/ (restart /\ nextIdx = 0 /\ g.lastIdx = Len(g.actions) - 1)

\* Mutant: running past the end with actions left over is a missed action.
M_scheduleElapsed_LateIsMissed(g, elapsed0) ==
  LET runtime == GroupSync_Duration(g)
      restart == restartActive(g, elapsed0)
      elapsed == IF restart THEN Rem(elapsed0, runtime) ELSE elapsed0
      cur == currentIdx(g.actions, elapsed)
      nextIdx == cur.idx
      next == cur.next
  IN
  IF ~restart /\ elapsed >= runtime /\ g.lastIdx # Len(g.actions) - 1
    THEN [g |-> [g EXCEPT !.failed = TRUE],
          r |-> Result(ZeroValue, FALSE, 0, errMissedAction)]
  ELSE IF nextIdx = g.lastIdx
    THEN [g |-> g, r |-> Result(ZeroValue, FALSE, next, Nil)]
  ELSE IF missedAction(g, nextIdx, restart)
    THEN [g |-> [g EXCEPT !.failed = TRUE],
          r |-> Result(ZeroValue, FALSE, 0, errMissedAction)]
  ELSE IF nextIdx = -1
    THEN [g |-> g, r |-> Result(ZeroValue, FALSE, 0, Nil)]
  ELSE IF timeForNext(g, nextIdx, restart)
    THEN [g |-> [g EXCEPT !.lastIdx = nextIdx],
          r |-> Result(g.actions[nextIdx + 1].Value, TRUE, next, Nil)]
  ELSE [g |-> g, r |-> Result(ZeroValue, FALSE, next, errUnexpectedNextIdx)]

\* scheduleNext from "runtime := g.Duration()" on: elapsed0 is now - start.
GroupSync_scheduleElapsed(g, elapsed0) ==
  LET runtime == GroupSync_Duration(g)
      restart == restartActive(g, elapsed0)
      elapsed == IF restart THEN Rem(elapsed0, runtime) ELSE elapsed0
      cur == currentIdx(g.actions, elapsed)
      nextIdx == cur.idx
      next == cur.next
  IN
  IF nextIdx = g.lastIdx
    THEN [g |-> g, r |-> Result(ZeroValue, FALSE, next, Nil)]
  ELSE IF missedAction(g, nextIdx, restart)
    THEN [g |-> [g EXCEPT !.failed = TRUE],
          r |-> Result(ZeroValue, FALSE, 0, errMissedAction)]
  ELSE IF nextIdx = -1
    THEN [g |-> g, r |-> Result(ZeroValue, FALSE, 0, Nil)]
  ELSE IF timeForNext(g, nextIdx, restart)
    THEN [g |-> [g EXCEPT !.lastIdx = nextIdx],
          r |-> Result(g.actions[nextIdx + 1].Value, TRUE, next, Nil)]
  ELSE [g |-> g, r |-> Result(ZeroValue, FALSE, next, errUnexpectedNextIdx)]

\* Mutant: scheduleNext without the wait for the start instant.
M_scheduleNext_NoStartWait(g, now) ==
  GroupSync_scheduleElapsed(g, Sub(now, g.start))

\* Mutant: the wait for the start instant hands out the first action's value.
M_scheduleNext_ValueWhileWaiting(g, now) ==
  LET elapsed == Sub(now, g.start) IN
  IF elapsed < 0
    THEN [g |-> g, r |-> Result(g.actions[1].Value, FALSE, -elapsed, Nil)]
    ELSE GroupSync_scheduleElapsed(g, elapsed)

\* Mutant: the wait for the start instant answers next = 0.
M_scheduleNext_ZeroWhileWaiting(g, now) ==
  LET elapsed == Sub(now, g.start) IN
  IF elapsed < 0
    THEN [g |-> g, r |-> Result(ZeroValue, FALSE, 0, Nil)]
    ELSE GroupSync_scheduleElapsed(g, elapsed)

\* Mutant: a poll made before the start instant puts the position back to
\* where Begins left it.
M_scheduleNext_WaitRewinds(g, now) ==
  LET elapsed == Sub(now, g.start) IN
  IF elapsed < 0
    THEN [g |-> [g EXCEPT !.lastIdx = -1],
          r |-> Result(ZeroValue, FALSE, -elapsed, Nil)]
    ELSE GroupSync_scheduleElapsed(g, elapsed)

GroupSync_scheduleNext(g, now) ==
  LET elapsed == Sub(now, g.start) IN
  IF elapsed < 0
    THEN [g |-> g, r |-> Result(ZeroValue, FALSE, -elapsed, Nil)]
    ELSE GroupSync_scheduleElapsed(g, elapsed)

\* Mutant: ScheduleNext without the check that Begins was called.
M_ScheduleNext_NoBeginCheck(g, now) ==
  IF g.failed
    THEN [g |-> g, r |-> Result(ZeroValue, FALSE, 0, errGroupFailed)]
  ELSE GroupSync_scheduleNext(g, now)

\* Mutant: ScheduleNext without the check of the failed flag.
M_ScheduleNext_NoFailedCheck(g, now) ==
  IF IsZero(g.start)
    THEN [g |-> g, r |-> Result(ZeroValue, FALSE, 0, errBeginNotCalled)]
  ELSE GroupSync_scheduleNext(g, now)

\* Mutant: a poll of a failed group restarts it at the instant of the poll.
M_ScheduleNext_RestartsWhenFailed(g, now) ==
  IF IsZero(g.start)
    THEN [g |-> g, r |-> Result(ZeroValue, FALSE, 0, errBeginNotCalled)]
  ELSE IF g.failed
    THEN [g |-> [g EXCEPT !.start = now],
          r |-> Result(ZeroValue, FALSE, 0, errGroupFailed)]
  ELSE GroupSync_scheduleNext(g, now)

GroupSync_ScheduleNext(g, now) ==
  IF IsZero(g.start)
    THEN [g |-> g, r |-> Result(ZeroValue, FALSE, 0, errBeginNotCalled)]
  ELSE IF g.failed
    THEN [g |-> g, r |-> Result(ZeroValue, FALSE, 0, errGroupFailed)]
  ELSE GroupSync_scheduleNext(g, now)

\* ----------------------------------------------------------- loose engine
NewGroupLoose(actions, cfg) ==
  LET d == actionsDuration(actions, TRUE) IN
  IF d.err # Nil /\ d.err # ErrSmallDuration THEN [g |-> NilGroup, err |-> d.err]
  ELSE IF Len(actions) = 0 THEN [g |-> NilGroup, err |-> errEmptyActions]
  ELSE IF cfg.Iterations <= 0 /\ cfg.Iterations # -1
    THEN [g |-> NilGroup, err |-> errBadIterations]
  ELSE [g |-> [start |-> ZeroTime, lastActionStart |-> ZeroTime,
               duration |-> d.duration, lastIdx |-> 0, actions |-> actions,
               iterations |-> cfg.Iterations],
        err |-> Nil]

\* Mutant: Begins that resets the position and forgets the start instant.
M_LooseBegins_KeepsStart(g, start) ==
  [g EXCEPT !.lastActionStart = ZeroTime, !.lastIdx = -1]

\* Mutant: Begins that leaves the position at action 0, as the constructor
\* does, instead of before it.
M_LooseBegins_AtActionZero(g, start) ==
  [g EXCEPT !.start = start, !.lastActionStart = ZeroTime, !.lastIdx = 0]

\* Mutant: Begins that takes the zero instant to mean "begin at once" and
\* stores the first instant after it.
M_LooseBegins_ZeroMeansAtOnce(g, start) ==
  [g EXCEPT !.start = IF IsZero(start) THEN ZeroTime + 1 ELSE start,
            !.lastActionStart = ZeroTime, !.lastIdx = -1]

GroupLoose_Begins(g, start) ==
  [g EXCEPT !.start = start, !.lastActionStart = ZeroTime, !.lastIdx = -1]

GroupLoose_StartTime(g) == g.start

GroupLoose_Iterations(g) == g.iterations

GroupLoose_Duration(g) == g.duration

\* Mutant: one action more than length * iterations is allowed.
M_nextActionEnabled_OneMore(g, nextIdx) ==
  g.iterations = -1 \/ nextIdx <= Len(g.actions) * g.iterations

\* nextActionEnabled of GroupLoose.ScheduleNext
nextActionEnabled(g, nextIdx) ==
  g.iterations = -1 \/ nextIdx < Len(g.actions) * g.iterations

\* Mutant: the time of the current action measured from the group's start.
M_looseActionElapsed_FromStart(g, now) == Sub(now, g.start)

\* actionElapsed of GroupLoose.ScheduleNext
looseActionElapsed(g, now) == Sub(now, g.lastActionStart)

\* Mutant: a poll that comes so late that the next action's duration is over
\* as well skips that action and triggers the one after it.
M_LooseScheduleNext_CatchesUp(g, now) ==
  IF IsZero(g.start)
    THEN [g |-> g, r |-> Result(ZeroValue, FALSE, 0, errBeginNotCalled)]
  ELSE
    LET elapsed == Sub(now, g.start) IN
    IF elapsed < 0
      THEN [g |-> g, r |-> Result(ZeroValue, FALSE, -elapsed, Nil)]
    ELSE IF g.lastIdx = -1
      THEN [g |-> [g EXCEPT !.lastActionStart = now, !.lastIdx = 0],
            r |-> Result(g.actions[1].Value, TRUE, g.actions[1].Duration, Nil)]
    ELSE
      LET actionElapsed == looseActionElapsed(g, now)
          safeIdx == Rem(g.lastIdx, Len(g.actions))
          currAction == g.actions[safeIdx + 1]
          over == currAction.Duration
                    + g.actions[Rem(g.lastIdx + 1, Len(g.actions)) + 1].Duration
          nextIdx == IF actionElapsed >= over /\ nextActionEnabled(g, g.lastIdx + 2)
                       THEN g.lastIdx + 2 ELSE g.lastIdx + 1
          safeIdx2 == Rem(nextIdx, Len(g.actions))
      IN
      IF actionElapsed < currAction.Duration
        THEN [g |-> g,
              r |-> Result(ZeroValue, FALSE, currAction.Duration - actionElapsed, Nil)]
      ELSE IF ~nextActionEnabled(g, nextIdx)
        THEN [g |-> g, r |-> Result(ZeroValue, FALSE, 0, Nil)]
      ELSE [g |-> [g EXCEPT !.lastIdx = nextIdx, !.lastActionStart = now],
            r |-> Result(g.actions[safeIdx2 + 1].Value, TRUE,
                         g.actions[safeIdx2 + 1].Duration, Nil)]

\* Mutant: a poll that answers "wait" restarts the clock of the current
\* action, so a caller that polls more often than the action lasts waits
\* for ever.
M_LooseScheduleNext_WaitRestartsClock(g, now) ==
  IF IsZero(g.start)
    THEN [g |-> g, r |-> Result(ZeroValue, FALSE, 0, errBeginNotCalled)]
  ELSE
    LET elapsed == Sub(now, g.start) IN
    IF elapsed < 0
      THEN [g |-> g, r |-> Result(ZeroValue, FALSE, -elapsed, Nil)]
    ELSE IF g.lastIdx = -1
      THEN [g |-> [g EXCEPT !.lastActionStart = now, !.lastIdx = 0],
            r |-> Result(g.actions[1].Value, TRUE, g.actions[1].Duration, Nil)]
    ELSE
      LET actionElapsed == looseActionElapsed(g, now)
          safeIdx == Rem(g.lastIdx, Len(g.actions))
          currAction == g.actions[safeIdx + 1]
          nextIdx == g.lastIdx + 1
          safeIdx2 == Rem(nextIdx, Len(g.actions))
      IN
      IF actionElapsed < currAction.Duration
        THEN [g |-> [g EXCEPT !.lastActionStart = now],
              r |-> Result(ZeroValue, FALSE, currAction.Duration - actionElapsed, Nil)]
      ELSE IF ~nextActionEnabled(g, nextIdx)
        THEN [g |-> g, r |-> Result(ZeroValue, FALSE, 0, Nil)]
      ELSE [g |-> [g EXCEPT !.lastIdx = nextIdx, !.lastActionStart = now],
            r |-> Result(g.actions[safeIdx2 + 1].Value, TRUE,
                         g.actions[safeIdx2 + 1].Duration, Nil)]

GroupLoose_ScheduleNext(g, now) ==
  IF IsZero(g.start)
    THEN [g |-> g, r |-> Result(ZeroValue, FALSE, 0, errBeginNotCalled)]
  ELSE
    LET elapsed == Sub(now, g.start) IN
    IF elapsed < 0
      THEN [g |-> g, r |-> Result(ZeroValue, FALSE, -elapsed, Nil)]
    ELSE IF g.lastIdx = -1
      THEN [g |-> [g EXCEPT !.lastActionStart = now, !.lastIdx = 0],
            r |-> Result(g.actions[1].Value, TRUE, g.actions[1].Duration, Nil)]
    ELSE
      LET actionElapsed == looseActionElapsed(g, now)
          safeIdx == Rem(g.lastIdx, Len(g.actions))
          currAction == g.actions[safeIdx + 1]
          nextIdx == g.lastIdx + 1
          safeIdx2 == Rem(nextIdx, Len(g.actions))
      IN
      IF actionElapsed < currAction.Duration
        THEN [g |-> g,
              r |-> Result(ZeroValue, FALSE, currAction.Duration - actionElapsed, Nil)]
      ELSE IF ~nextActionEnabled(g, nextIdx)
        THEN [g |-> g, r |-> Result(ZeroValue, FALSE, 0, Nil)]
      ELSE [g |-> [g EXCEPT !.lastIdx = nextIdx, !.lastActionStart = now],
            r |-> Result(g.actions[safeIdx2 + 1].Value, TRUE,
                         g.actions[safeIdx2 + 1].Duration, Nil)]

\* ------------------------------------------------- the caller's view
\* The nominal grid of the schedule, stated from the table alone: window w
\* (w = 0, 1, 2, ...) is the window of action w mod length in repetition
\* w div length, and starts PrefixSum + repetition * cycle after the start.
RECURSIVE SumDurations(_, _)
SumDurations(actions, n) ==
  IF n = 0 THEN 0 ELSE SumDurations(actions, n - 1) + actions[n].Duration

CycleOf(actions) == SumDurations(actions, Len(actions))

WindowStart(actions, w) ==
  (w \div Len(actions)) * CycleOf(actions) + SumDurations(actions, w % Len(actions))

\* Number of windows of the whole schedule (bounded iterations only).
TotalWindows(actions, iterations) == Len(actions) * iterations

\* The window that holds elapsed time e: -1 before the start, and the number
\* of windows of the schedule once a bounded schedule has run out.
WindowAt(actions, iterations, e) ==
  IF e < 0 THEN -1
  ELSE IF iterations # Infinite /\ e >= iterations * CycleOf(actions)
    THEN TotalWindows(actions, iterations)
  ELSE CHOOSE w \in 0..(MaxT + 1) * MaxLen :
         WindowStart(actions, w) <= e /\ e < WindowStart(actions, w + 1)

MinDuration(actions) ==
  CHOOSE d \in { actions[i].Duration : i \in 1..Len(actions) } :
    \A i \in 1..Len(actions) : d <= actions[i].Duration

\* Index of the action that carries value v (values are distinct), 0-based.
IndexOfValue(actions, v) == (CHOOSE i \in 1..Len(actions) : actions[i].Value = v) - 1

TableValues(actions) == [i \in 1..Len(actions) |-> actions[i].Value]

NoCall == "no call"
NoResult == Result(ZeroValue, FALSE, 0, NoCall)
Done == Result(ZeroValue, FALSE, 0, Nil)
NoInstant == ZeroTime - 2

\* What the caller has seen.  Since the last Begins:
\*   begin    the instant given to the last Begins (NoInstant: never called)
\*   polled   a poll was made;  lastNow  its instant
\*   mono     the poll instants were non-decreasing
\*   early    every poll was at an instant before the start instant
\*   steady   the first poll was at elapsed 0 and no two consecutive polls
\*            were further apart than the shortest action duration
\*   unit     the first poll was at elapsed 0 and every later poll one time
\*            unit after the one before it
\*   fine     no poll skipped a window of the nominal grid (strict engine,
\*            whose windows are never empty)
\*   trigs    the values triggered (ok = true), in order;  trigAt  the instant
\*            of the last one
\*   missed   a poll returned the missed action error
\*   doneAt   the earliest instant of the polls that returned done, while
\*            every poll since has returned done
\*   stopAt   the earliest instant of the polls that returned done, whatever
\*            the polls since have returned
\* and of the state the last Begins was called in:
\*   from     "new" (never begun, never polled), "misused" (never begun, but
\*            polled), "failed", "done" or "other"
HNew ==
  [begin |-> NoInstant, polled |-> FALSE, lastNow |-> NoInstant, mono |-> TRUE,
   early |-> TRUE, steady |-> TRUE, unit |-> TRUE, fine |-> TRUE, trigs |-> <<>>,
   trigAt |-> NoInstant, missed |-> FALSE, doneAt |-> NoInstant,
   stopAt |-> NoInstant,
   from |-> "new"]

HBegin(hh, start) ==
  [HNew EXCEPT !.begin = start,
               !.from = IF hh.begin = NoInstant
                          THEN (IF hh.polled THEN "misused" ELSE "new")
                        ELSE IF hh.missed THEN "failed"
                        ELSE IF hh.doneAt # NoInstant THEN "done"
                        ELSE "other"]

Observe(hh, now, r) ==
  LET start == hh.begin
      acts == input.actions
      its == input.cfg.Iterations
      wPrev == IF hh.polled THEN WindowAt(acts, its, hh.lastNow - start) ELSE -1
  IN
  [hh EXCEPT
     !.polled = TRUE,
     !.lastNow = now,
     !.mono = hh.mono /\ (hh.polled => now >= hh.lastNow),
     !.early = hh.early /\ now < start,
     !.steady = IF hh.polled
                  THEN hh.steady /\ now >= hh.lastNow
                         /\ now - hh.lastNow <= MinDuration(acts)
                  ELSE now = start,
     !.unit = IF hh.polled THEN hh.unit /\ now = hh.lastNow + 1 ELSE now = start,
     !.fine = kind = "sync" /\ hh.fine /\ (hh.polled => now >= hh.lastNow)
                /\ WindowAt(acts, its, now - start) <= wPrev + 1,
     !.trigs = IF r.ok THEN Append(hh.trigs, r.v) ELSE hh.trigs,
     !.trigAt = IF r.ok THEN now ELSE hh.trigAt,
     !.missed = hh.missed \/ r.err = errMissedAction,
     !.doneAt = IF r # Done THEN NoInstant
                ELSE IF hh.doneAt = NoInstant \/ now < hh.doneAt THEN now
                ELSE hh.doneAt,
     !.stopAt = IF r # Done THEN hh.stopAt
                ELSE IF hh.stopAt = NoInstant \/ now < hh.stopAt THEN now
                ELSE hh.stopAt]

\* ------------------------------------------------------------- the system
Init ==
  /\ kind \in {"sync", "loose"}
  /\ \E it \in IterationChoices :
       \E actions \in (IF kind = "sync" THEN SyncTables ELSE LooseTables) :
         /\ input = [actions |-> actions, cfg |-> [Iterations |-> it]]
         /\ gs = IF kind = "sync" THEN NewGroupSync(actions, [Iterations |-> it]).g ELSE NilGroup
         /\ gl = IF kind = "loose" THEN NewGroupLoose(actions, [Iterations |-> it]).g ELSE NilGroup
  /\ op = [name |-> "new", at |-> NoInstant]
  /\ res = NoResult
  /\ h = HNew
  /\ tw = [g |-> IF kind = "sync" THEN gs ELSE gl, r |-> NoResult]
  /\ newErr = [sync |-> IF kind = "sync"
                       THEN NewGroupSync(input.actions, input.cfg).err ELSE NoCall,
            loose |-> IF kind = "loose"
                        THEN NewGroupLoose(input.actions, input.cfg).err ELSE NoCall]

\* The caller calls gs.Begins(start).
SyncBegins ==
  \E start \in StartInstants :
    /\ kind = "sync"
    /\ gs' = GroupSync_Begins(gs, start)
    /\ op' = [name |-> "begin", at |-> start]
    /\ res' = NoResult
    /\ h' = HBegin(h, start)
    /\ tw' = [g |-> GroupSync_Begins(NewGroupSync(input.actions, input.cfg).g, start),
              r |-> NoResult]
    /\ UNCHANGED <<kind, input, gl, newErr>>

\* The caller calls gs.ScheduleNext(now).  MaxTrig bounds the number of
\* triggers the caller records between two calls of Begins.
SyncPoll ==
  \E now \in Instants :
    LET out == GroupSync_ScheduleNext(gs, now)
        two == GroupSync_ScheduleNext(tw.g, now)
    IN
    /\ kind = "sync"
    /\ Len(h.trigs) < MaxTrig
    /\ gs' = out.g
    /\ res' = out.r
    /\ op' = [name |-> "poll", at |-> now]
    /\ h' = Observe(h, now, out.r)
    /\ tw' = two
    /\ UNCHANGED <<kind, input, gl, newErr>>

\* The caller calls gl.Begins(start).
LooseBegins ==
  \E start \in StartInstants :
    /\ kind = "loose"
    /\ gl' = GroupLoose_Begins(gl, start)
    /\ op' = [name |-> "begin", at |-> start]
    /\ res' = NoResult
    /\ h' = HBegin(h, start)
    /\ tw' = [g |-> GroupLoose_Begins(NewGroupLoose(input.actions, input.cfg).g, start),
              r |-> NoResult]
    /\ UNCHANGED <<kind, input, gs, newErr>>

\* The caller calls gl.ScheduleNext(now).
LoosePoll ==
  \E now \in Instants :
    LET out == GroupLoose_ScheduleNext(gl, now)
        two == GroupLoose_ScheduleNext(tw.g, now)
    IN
    /\ kind = "loose"
    /\ Len(h.trigs) < MaxTrig
    /\ gl' = out.g
    /\ res' = out.r
    /\ op' = [name |-> "poll", at |-> now]
    /\ h' = Observe(h, now, out.r)
    /\ tw' = two
    /\ UNCHANGED <<kind, input, gs, newErr>>

Next == SyncBegins \/ SyncPoll \/ LooseBegins \/ LoosePoll

Spec == Init /\ [][Next]_vars

\* ------------------------------------------------- the constructors' inputs
\* A second system: the caller holds any table and configuration, valid or
\* not, calls each constructor on it once, and goes on to use the loose
\* sequencer when NewGroupLoose returned one.
NewDurations == {-1, 0, 1, Millisecond}
NewIterations == (Infinite - 1)..MaxIter
NewTables ==
  UNION { { [i \in 1..n |-> Action(d[i], i)] : d \in [1..n -> NewDurations] } :
          n \in 0..MaxNewLen }

InitNew ==
  /\ kind = "none"
  /\ \E it \in NewIterations : \E actions \in NewTables :
       input = [actions |-> actions, cfg |-> [Iterations |-> it]]
  /\ gs = NilGroup
  /\ gl = NilGroup
  /\ op = [name |-> "none", at |-> NoInstant]
  /\ res = NoResult
  /\ h = HNew
  /\ tw = [g |-> NilGroup, r |-> NoResult]
  /\ newErr = [sync |-> NoCall, loose |-> NoCall]

\* The caller calls NewGroupSync(actions, cfg).
ConstructSync ==
  LET made == NewGroupSync(input.actions, input.cfg) IN
  /\ newErr.sync = NoCall
  /\ gs' = made.g
  /\ newErr' = [newErr EXCEPT !.sync = made.err]
  /\ op' = [name |-> "NewGroupSync", at |-> NoInstant]
  /\ UNCHANGED <<kind, input, gl, res, h, tw>>

\* The caller calls NewGroupLoose(actions, cfg).
ConstructLoose ==
  LET made == NewGroupLoose(input.actions, input.cfg) IN
  /\ newErr.loose = NoCall
  /\ gl' = made.g
  /\ newErr' = [newErr EXCEPT !.loose = made.err]
  /\ kind' = IF made.g # NilGroup THEN "loose" ELSE kind
  /\ tw' = [g |-> made.g, r |-> NoResult]
  /\ op' = [name |-> "NewGroupLoose", at |-> NoInstant]
  /\ UNCHANGED <<input, gs, res, h>>

NextNew == ConstructSync \/ ConstructLoose \/ LooseBegins \/ LoosePoll

SpecNew == InitNew /\ [][NextNew]_vars

\* ------------------------------------------------ the caller that keeps polling
\* A third system: a sequencer with a positive iteration count is begun once,
\* at an instant other than the zero instant, and then polled for ever at
\* instants that increase, by 1..MaxStep from one poll to the next.  The
\* horizon is an instant no schedule of the model can last to: every
\* action can take its longest duration and be triggered as late as the
\* caller's steps allow.
LiveHorizon == MaxStart + MaxStep + MaxLen * MaxIter * (MaxDur + MaxStep)
LiveInstants == (ZeroTime - 1)..LiveHorizon

InitLive == Init /\ input.cfg.Iterations > 0

LiveBegins ==
  \E start \in StartInstants :
    /\ h.begin = NoInstant
    /\ ~IsZero(start)
    /\ IF kind = "sync"
         THEN /\ gs' = GroupSync_Begins(gs, start)
              /\ gl' = gl
              /\ tw' = [g |-> GroupSync_Begins(gs, start), r |-> NoResult]
         ELSE /\ gl' = GroupLoose_Begins(gl, start)
              /\ gs' = gs
              /\ tw' = [g |-> GroupLoose_Begins(gl, start), r |-> NoResult]
    /\ op' = [name |-> "begin", at |-> start]
    /\ res' = NoResult
    /\ h' = HBegin(h, start)
    /\ UNCHANGED <<kind, input, newErr>>

\* The instants the caller may poll at next.
NextInstants ==
  IF h.polled
    THEN { t \in LiveInstants : t > h.lastNow /\ t <= h.lastNow + MaxStep }
    ELSE { t \in LiveInstants : t >= h.begin - 1 /\ t < h.begin + MaxStep }

LiveSyncPoll ==
  \E now \in NextInstants :
    LET out == GroupSync_ScheduleNext(gs, now) IN
    /\ kind = "sync"
    /\ h.begin # NoInstant
    /\ gs' = out.g
    /\ res' = out.r
    /\ op' = [name |-> "poll", at |-> now]
    /\ h' = Observe(h, now, out.r)
    /\ tw' = GroupSync_ScheduleNext(tw.g, now)
    /\ UNCHANGED <<kind, input, gl, newErr>>

LiveLoosePoll ==
  \E now \in NextInstants :
    LET out == GroupLoose_ScheduleNext(gl, now) IN
    /\ kind = "loose"
    /\ h.begin # NoInstant
    /\ gl' = out.g
    /\ res' = out.r
    /\ op' = [name |-> "poll", at |-> now]
    /\ h' = Observe(h, now, out.r)
    /\ tw' = GroupLoose_ScheduleNext(tw.g, now)
    /\ UNCHANGED <<kind, input, gs, newErr>>

NextLive == LiveBegins \/ LiveSyncPoll \/ LiveLoosePoll

\* The caller does call Begins, and keeps polling.
SpecLive ==
  /\ InitLive /\ [][NextLive]_vars
  /\ WF_vars(LiveBegins) /\ WF_vars(LiveSyncPoll) /\ WF_vars(LiveLoosePoll)

\* ------------------------------------------------- the two engines side by side
\* A fourth system: a strict and a loose sequencer are built from the same
\* table and iteration setting, begun at the same instants and polled at the
\* same instants.  res and h record what the strict sequencer returned, tw
\* holds the loose sequencer and what it returned to the same poll.
InitBoth ==
  /\ kind = "both"
  /\ \E it \in IterationChoices :
       \E actions \in SyncTables :
         /\ input = [actions |-> actions, cfg |-> [Iterations |-> it]]
         /\ gs = NewGroupSync(actions, [Iterations |-> it]).g
         /\ gl = NewGroupLoose(actions, [Iterations |-> it]).g
  /\ op = [name |-> "new", at |-> NoInstant]
  /\ res = NoResult
  /\ h = HNew
  /\ tw = [g |-> gl, r |-> NoResult]
  /\ newErr = [sync |-> NewGroupSync(input.actions, input.cfg).err,
               loose |-> NewGroupLoose(input.actions, input.cfg).err]

BothBegins ==
  \E start \in StartInstants :
    /\ kind = "both"
    /\ gs' = GroupSync_Begins(gs, start)
    /\ gl' = GroupLoose_Begins(gl, start)
    /\ op' = [name |-> "begin", at |-> start]
    /\ res' = NoResult
    /\ h' = HBegin(h, start)
    /\ tw' = [g |-> GroupLoose_Begins(gl, start), r |-> NoResult]
    /\ UNCHANGED <<kind, input, newErr>>

BothPoll ==
  \E now \in Instants :
    LET out == GroupSync_ScheduleNext(gs, now)
        two == GroupLoose_ScheduleNext(gl, now)
    IN
    /\ kind = "both"
    /\ Len(h.trigs) < MaxTrig
    /\ gs' = out.g
    /\ gl' = two.g
    /\ res' = out.r
    /\ op' = [name |-> "poll", at |-> now]
    /\ h' = Observe(h, now, out.r)
    /\ tw' = two
    /\ UNCHANGED <<kind, input, newErr>>

NextBoth == BothBegins \/ BothPoll

SpecBoth == InitBoth /\ [][NextBoth]_vars

\* ------------------------------------------------------------ vocabulary
\* "Begin" in the properties below is Begins with an instant other than the
\* zero instant: the zero instant is the data model's "not started" value.
Started == h.begin # NoInstant /\ ~IsZero(h.begin)
NeverBegun == h.begin = NoInstant
Polled == op.name = "poll"
PollStep == op'.name = "poll"
BeginStep == op'.name = "begin"
Sync == kind = "sync"
Loose == kind = "loose"
Bounded == input.cfg.Iterations > 0
Unbounded == input.cfg.Iterations = Infinite
Length == Len(input.actions)
Cycle == CycleOf(input.actions)
ElapsedAt(t) == t - h.begin
WindowOf(t) == WindowAt(input.actions, input.cfg.Iterations, ElapsedAt(t))
DurationOfValue(v) == input.actions[IndexOfValue(input.actions, v) + 1].Duration
LastTrig == h.trigs[Len(h.trigs)]
\* All durations of the table are at least one time unit.
PositiveDurations == \A i \in 1..Length : input.actions[i].Duration >= 1
\* The window of the first cycle that holds (elapsed mod cycle) at instant t.
CycleWindowOf(t) == WindowAt(input.actions, Infinite, ElapsedAt(t) % Cycle)
\* A bounded schedule has run its N cycles at instant t.
RanOutAt(t) == Bounded /\ ElapsedAt(t) >= input.cfg.Iterations * Cycle
\* The first n values of the table repeated cyclically.
CyclicValues(n) == [j \in 1..n |-> input.actions[((j - 1) % Length) + 1].Value]
\* What the constructors were given, and what they did.
EmptyTable == Length = 0
HasNegative == \E i \in 1..Length : input.actions[i].Duration < 0
HasZero == \E i \in 1..Length : input.actions[i].Duration = 0
BadIterations == ~(input.cfg.Iterations > 0 \/ input.cfg.Iterations = Infinite)
HasSmall == \E i \in 1..Length : input.actions[i].Duration < Millisecond
ValidForLoose == ~EmptyTable /\ ~HasNegative /\ ~BadIterations
ValidForSync == ValidForLoose /\ ~HasZero
SyncCalled == newErr.sync # NoCall
LooseCalled == newErr.loose # NoCall
SyncRejected == gs = NilGroup /\ newErr.sync \notin {Nil, ErrSmallDuration}
LooseRejected == gl = NilGroup /\ newErr.loose \notin {Nil, ErrSmallDuration}
\* Repetition is active at instant t: the schedule wraps around.
RepetitionActiveAt(t) ==
  Unbounded \/ (input.cfg.Iterations > 1
                  /\ ElapsedAt(t) < input.cfg.Iterations * Cycle)
GroupFailed == Result(ZeroValue, FALSE, 0, errGroupFailed)
NotStarted == Result(ZeroValue, FALSE, 0, errBeginNotCalled)

\* ----------------------------------------------------------------- claims
\* C1 (as claimed): strict engine, poll instants non-decreasing: a poll that
\* comes two or more window boundaries of the nominal grid after the last
\* triggering poll returns the missed action error, whatever the table, the
\* iteration setting and the size of the gap.
C1_SkippedWindowIsMissedAction ==
  [][(/\ Sync /\ Started /\ PollStep
      /\ h.trigs # <<>> /\ ~h.missed /\ h'.mono
      /\ WindowOf(op'.at) - WindowOf(h.trigAt) >= 2)
     => res'.err = errMissedAction]_vars

\* C2: strict engine: once a poll has returned the missed action error, every
\* later poll, at any instant, returns (zero value, ok = false, group failed
\* error) and changes nothing, until Begins; Begins clears the failed flag and
\* the poll after it does not return the group failed error.
C2_FailedIsSticky ==
  [][/\ (Sync /\ h.missed /\ PollStep)
          => (res' = GroupFailed /\ gs' = gs /\ h'.trigs = h.trigs)
     /\ (Sync /\ res'.err = errMissedAction) => gs'.failed
     /\ (Sync /\ BeginStep) => (~gs'.failed /\ ~h'.missed)
     /\ (Sync /\ op.name = "begin" /\ PollStep) => res'.err # errGroupFailed]_vars

\* C2 witness: a poll made after the missed action error, at an earlier
\* instant than the one that missed, has returned the group failed error.
C2_Witness ==
  Sync /\ h.missed /\ Polled /\ res = GroupFailed /\ ~h.mono /\ gs.failed

C4_LooseMinimumDuration ==
  [][(Loose /\ PollStep /\ res'.ok /\ h.trigs # <<>>)
     => op'.at - h.trigAt >= DurationOfValue(LastTrig)]_vars

\* C4 witness: the loose engine, polled at instants that went back in time,
\* has triggered a second action after one of positive duration.
C4_Witness ==
  /\ Loose /\ Polled /\ res.ok /\ ~h.mono /\ Len(h.trigs) >= 2
  /\ DurationOfValue(h.trigs[Len(h.trigs) - 1]) > 0

\* C5: loose engine: once begun (Begins with an instant other than the zero
\* instant) no poll returns an error, whatever the poll instants; the loose
\* engine never returns the missed action or the group failed error: the only
\* error it ever returns is the not started error, while it is not started.
C5_LooseNeverFails ==
  Loose /\ Polled
    => /\ Started => res.err = Nil
       /\ res.err \in {Nil, errBeginNotCalled}

\* C5 witness: a started loose engine answered a poll that came more than two
\* action durations after its last trigger.
C5_Witness ==
  /\ Loose /\ Started /\ Polled /\ res.err = Nil /\ Len(h.trigs) >= 1
  /\ op.at - h.trigAt > 2 * MaxDur

\* C6 (as claimed): strict engine, unbounded iterations, any table, polled so
\* that no window of the nominal grid is skipped: no poll returns an error,
\* and a poll triggers exactly when it is the first poll inside a window;
\* the j-th trigger is in window j and carries the value of action
\* j mod length, so the k-th trigger of action i is in the window that starts
\* at start + k * cycle + the durations of actions 0..i-1.
C6_UnboundedRepeatsOnGrid ==
  [][(Sync /\ Unbounded /\ Started /\ PollStep /\ h'.fine)
     => LET w == WindowOf(op'.at)
            wPrev == IF h.polled THEN WindowOf(h.lastNow) ELSE -1
        IN /\ res'.err = Nil
           /\ res'.ok <=> w # wPrev
           /\ res'.ok => /\ Len(h.trigs) = w
                         /\ res'.v = input.actions[(w % Length) + 1].Value
                         /\ h.begin + WindowStart(input.actions, w) <= op'.at
                         /\ op'.at < h.begin + WindowStart(input.actions, w + 1)]_vars

\* C7: strict engine, one iteration, begun: when the first poll is at elapsed 0 and
\* consecutive polls are no further apart than the shortest action duration,
\* no poll returns an error, the values triggered so far are the first values
\* of the table in table order, a poll returns done exactly when its elapsed
\* time has reached the cycle duration, and by then every value of the table
\* was triggered exactly once.
C7_SingleIterationInOrder ==
  (Sync /\ input.cfg.Iterations = 1 /\ Started /\ Polled /\ h.steady)
    => /\ res.err = Nil
       /\ Len(h.trigs) <= Length
       /\ h.trigs = SubSeq(TableValues(input.actions), 1, Len(h.trigs))
       /\ res = Done <=> ElapsedAt(op.at) >= Cycle
       /\ res = Done => h.trigs = TableValues(input.actions)

\* C7 witness: a table of three actions, one of them longer than another, was
\* polled steadily from elapsed 0, triggered 1, 2, 3 and then returned done.
C7_Witness ==
  /\ Sync /\ input.cfg.Iterations = 1 /\ Started /\ Polled /\ h.steady
  /\ Length = 3 /\ Cycle > 3 /\ res = Done /\ h.trigs = <<1, 2, 3>>

\* C8: both engines: a poll made before Begins was ever called returns the
\* not started error with ok = false and the zero value, triggers nothing and
\* leaves the sequencer as constructed; after a Begins that follows such
\* polls no poll returns the not started error, and a first poll at the start
\* instant triggers action 0.
C8_PollBeforeBegins ==
  [][/\ (NeverBegun /\ PollStep)
          => /\ res' = NotStarted /\ gs' = gs /\ gl' = gl /\ h'.trigs = <<>>
             /\ Sync => gs = NewGroupSync(input.actions, input.cfg).g
             /\ Loose => gl = NewGroupLoose(input.actions, input.cfg).g
     /\ (h.from = "misused" /\ Started /\ PollStep)
          => /\ res'.err # errBeginNotCalled
             /\ (~h.polled /\ op'.at = h.begin)
                  => res' = Result(input.actions[1].Value, TRUE,
                                   input.actions[1].Duration, Nil)]_vars

\* C8 witness: a strict sequencer polled before Begins, then begun, has
\* triggered its first two actions.
C8_Witness ==
  Sync /\ h.from = "misused" /\ Started /\ Polled /\ res.ok /\ Len(h.trigs) = 2

\* C9: both engines: a poll of a begun sequencer (one that has not failed:
\* the failed flag is looked at first) at an instant before the start instant
\* returns (zero value, ok = false, next = start - now > 0, no error) and
\* changes nothing; after only such polls, the first poll at or after the start
\* instant triggers action 0 (strict engine: when it falls in the window of
\* action 0), with the time left in that window as next.
C9_NotYetDue ==
  [][/\ (Started /\ ~h.missed /\ PollStep /\ op'.at < h.begin)
          => /\ res' = Result(ZeroValue, FALSE, h.begin - op'.at, Nil)
             /\ res'.next > 0
             /\ gs' = gs /\ gl' = gl /\ h'.trigs = h.trigs
     /\ (/\ Started /\ PollStep /\ h.polled /\ h.early /\ op'.at >= h.begin
         /\ Sync => ElapsedAt(op'.at) < input.actions[1].Duration)
          => /\ res'.ok /\ res'.err = Nil /\ res'.v = input.actions[1].Value
             /\ res'.next = input.actions[1].Duration
                              - (IF Sync THEN ElapsedAt(op'.at) ELSE 0)
             /\ IF Sync THEN ~gs'.failed /\ gs'.lastIdx = 0
                        ELSE gl'.lastIdx = 0 /\ gl'.lastActionStart = op'.at]_vars

\* C9 witness: a begun strict sequencer was polled two time units before its
\* start instant and nothing else: it answered next = 2 and is as Begins
\* left it.
C9_Witness ==
  /\ Sync /\ Started /\ Polled /\ h.early /\ op.at = h.begin - 2
  /\ res = Result(ZeroValue, FALSE, 2, Nil)
  /\ gs.lastIdx = -1 /\ ~gs.failed /\ h.trigs = <<>>

\* C10: both engines: Begins is a total reset.  After Begins(t) the sequencer
\* is what a freshly constructed one is after Begins(t), whatever it was
\* before; and from then on every poll returns what a freshly constructed
\* sequencer, begun at t and polled at the same instants, returns, and leaves
\* the same state.
C10_BeginsIsTotalReset ==
  op.name # "new"
    => /\ tw.g = (IF Sync THEN gs ELSE gl)
       /\ Polled => tw.r = res
       /\ (op.name = "begin" /\ Sync)
            => gs = [NewGroupSync(input.actions, input.cfg).g EXCEPT
                       !.start = op.at, !.lastIdx = -1]
       /\ (op.name = "begin" /\ Loose)
            => gl = [NewGroupLoose(input.actions, input.cfg).g EXCEPT
                       !.start = op.at, !.lastIdx = -1]

\* C10 witness: a strict sequencer that had failed was begun again and has
\* since triggered two actions.
C10_Witness ==
  Sync /\ h.from = "failed" /\ Started /\ Polled /\ res.ok /\ Len(h.trigs) = 2

\* C11: both engines, all durations at least one time unit, any iteration
\* setting: when polled at every time unit from elapsed 0, no poll returns an
\* error; every poll before the schedule has run out returns as next the time
\* left until the end of the nominal window that holds (elapsed mod cycle);
\* and a poll that returns ok = true returns the value of that window's action.
C11_UnitPollsFollowTheGrid ==
  (Started /\ Polled /\ h.unit /\ PositiveDurations)
    => /\ res.err = Nil
       /\ ~RanOutAt(op.at)
            => LET w == CycleWindowOf(op.at) IN
               /\ res # Done
               /\ res.next = WindowStart(input.actions, w + 1) - (ElapsedAt(op.at) % Cycle)
               /\ res.ok => res.v = input.actions[w + 1].Value

\* C11 witness: the loose engine, unbounded, with a table of two actions of
\* different durations, polled at every time unit, is in its second cycle and
\* waits inside a window with one time unit left.
C11_Witness ==
  /\ Loose /\ Unbounded /\ Started /\ Polled /\ h.unit /\ PositiveDurations
  /\ Length = 2 /\ input.actions[1].Duration # input.actions[2].Duration
  /\ ElapsedAt(op.at) > Cycle /\ ~res.ok /\ res.next = 1 /\ Len(h.trigs) = 4

\* C12: both engines, positive iteration count N, all durations at least one
\* time unit, polled at every time unit from elapsed 0: a poll returns done
\* exactly when its elapsed time has reached N * cycle, so the first poll that
\* returns done is the one at elapsed N * cycle; no poll at a smaller elapsed
\* time returns ok = false with next = 0.
C12_DoneAtEndOfLastCycle ==
  (Bounded /\ Started /\ Polled /\ h.unit /\ PositiveDurations)
    => /\ res = Done <=> ElapsedAt(op.at) >= input.cfg.Iterations * Cycle
       /\ ElapsedAt(op.at) < input.cfg.Iterations * Cycle
            => ~(~res.ok /\ res.next = 0)
       /\ h.doneAt # NoInstant
            => ElapsedAt(h.doneAt) = input.cfg.Iterations * Cycle

\* C12 witness: the strict engine with two iterations of a table of two
\* actions, polled at every time unit, has triggered four times and returns
\* done at elapsed 2 * cycle.
C12_Witness ==
  /\ Sync /\ input.cfg.Iterations = 2 /\ Length = 2 /\ Started /\ Polled /\ h.unit
  /\ res = Done /\ ElapsedAt(op.at) = 2 * Cycle /\ Len(h.trigs) = 4

\* C13: both engines, unbounded iterations (-1): no poll ever returns done
\* (ok = false, next = 0, no error), whatever the table and the poll instants;
\* a poll of a begun sequencer that neither triggers nor fails returns a
\* positive next.
C13_UnboundedNeverDone ==
  (Unbounded /\ Polled)
    => /\ res # Done
       /\ (Started /\ ~res.ok /\ res.err = Nil) => res.next > 0

\* C13 witness: the strict engine, unbounded, polled at instants that went
\* back in time, has triggered four times and is polled in its third cycle
\* or later.
C13_Witness ==
  /\ Sync /\ Unbounded /\ Started /\ Polled /\ ~h.mono /\ ~h.missed
  /\ Len(h.trigs) = 4 /\ ElapsedAt(op.at) >= 2 * Cycle

\* C14 (as claimed): strict engine, positive iteration count N, any table of
\* length >= 1, polled at every time unit from elapsed 0: the triggers follow
\* the table in cyclic order, and when done is reported there have been
\* N * length of them, N of each action.
C14_BoundedRunsNTraversals ==
  (Sync /\ Bounded /\ Started /\ Polled /\ h.unit)
    => /\ Len(h.trigs) <= input.cfg.Iterations * Length
       /\ h.trigs = CyclicValues(Len(h.trigs))
       /\ res = Done => Len(h.trigs) = input.cfg.Iterations * Length

\* C15: loose engine, positive iteration count N, table of length L, any
\* sequence of poll instants after begin: at most L * N actions are triggered
\* (the engine's index counts them); a poll returns done only when exactly
\* L * N actions have been triggered since begin and at least the declared
\* duration of the last one has passed since its trigger, and a poll made
\* then does return done.
C15_LooseBoundedCount ==
  (Loose /\ Bounded /\ Started /\ Polled)
    => LET total == Length * input.cfg.Iterations
           lastOver == /\ h.trigs # <<>>
                       /\ op.at - h.trigAt >= DurationOfValue(LastTrig)
       IN /\ Len(h.trigs) <= total
          /\ gl.lastIdx = Len(h.trigs) - 1
          /\ res = Done => (Len(h.trigs) = total /\ lastOver)
          /\ (Len(h.trigs) = total /\ lastOver /\ ~res.ok) => res = Done

\* C15 witness: the loose engine with two iterations of a table of two
\* actions, the last of positive duration, polled at instants that went back
\* in time, has triggered four actions and returns done.
C15_Witness ==
  /\ Loose /\ input.cfg.Iterations = 2 /\ Length = 2 /\ Started /\ Polled
  /\ ~h.mono /\ res = Done /\ Len(h.trigs) = 4
  /\ input.actions[2].Duration > 0

\* C16: both engines: a poll that returns ok = false (waiting, not yet due,
\* done or any error) returns the zero value of the payload type; a payload
\* other than the zero value comes only with ok = true, and is then a value
\* of the table.
C16_ZeroValueUnlessOk ==
  Polled
    => /\ ~res.ok => res.v = ZeroValue
       /\ res.v # ZeroValue => res.ok
       /\ res.ok => \E i \in 1..Length : res.v = input.actions[i].Value

\* C16 witness: the strict engine, after two triggers that carried non-zero
\* values, returns the missed action error with the zero value.
C16_Witness ==
  /\ Sync /\ Started /\ Polled /\ Len(h.trigs) = 2 /\ LastTrig # ZeroValue
  /\ res = Result(ZeroValue, FALSE, 0, errMissedAction)

\* C17: both engines: nothing done after construction (Begins, polls, the
\* accessors) changes the configuration: the table is the one handed to the
\* constructor (durations, values, order), and Duration() and Iterations()
\* return what they returned at construction; a poll never changes the start
\* instant: StartTime() is the instant of the most recent Begins, whatever
\* the number of polls since, and the zero instant before the first Begins.
C17_ConfigurationIsFrozen ==
  /\ Sync => LET made == NewGroupSync(input.actions, input.cfg).g IN
             /\ gs.actions = input.actions
             /\ GroupSync_Duration(gs) = GroupSync_Duration(made)
             /\ GroupSync_Iterations(gs) = input.cfg.Iterations
             /\ GroupSync_StartTime(gs) = IF NeverBegun THEN ZeroTime ELSE h.begin
  /\ Loose => LET made == NewGroupLoose(input.actions, input.cfg).g IN
              /\ gl.actions = input.actions
              /\ GroupLoose_Duration(gl) = GroupLoose_Duration(made)
              /\ GroupLoose_Iterations(gl) = input.cfg.Iterations
              /\ GroupLoose_StartTime(gl) = IF NeverBegun THEN ZeroTime ELSE h.begin

\* C17 witness: a strict sequencer that had failed and was begun again has
\* failed again and was polled after that, at an instant other than its
\* start instant: its start instant is still the one given to Begins.
C17_Witness ==
  /\ Sync /\ h.from = "failed" /\ Started /\ Polled /\ res = GroupFailed
  /\ op.at # h.begin /\ Len(h.trigs) >= 1 /\ GroupSync_StartTime(gs) = h.begin

\* C18: both engines: for every successfully constructed sequencer Duration()
\* is exactly the sum of the durations of all actions of the table, at
\* construction and after any number of Begins and polls.
C18_DurationIsSumOfDurations ==
  /\ Sync => GroupSync_Duration(gs) = CycleOf(input.actions)
  /\ Loose => GroupLoose_Duration(gl) = CycleOf(input.actions)

\* C18 witness: a strict sequencer with three actions of durations that sum
\* to 5 has been begun and polled, has triggered twice, and Duration() is 5.
C18_Witness ==
  /\ Sync /\ Started /\ Polled /\ Length = 3 /\ Len(h.trigs) = 2
  /\ input.actions[1].Duration + input.actions[2].Duration
       + input.actions[3].Duration = 5
  /\ GroupSync_Duration(gs) = 5

\* C19: both constructors fail and return no sequencer when the table is
\* empty (empty actions error), when an action has a negative duration
\* (negative duration error; the strict constructor gives the zero duration
\* error when a zero duration comes first), or when the iteration count is
\* neither positive nor -1 (bad iterations error for 0 and for every value
\* below -1, the table being acceptable); with an acceptable table every
\* positive count and -1 are accepted and kept.
C19_ConstructorsReject ==
  /\ SyncCalled
       => /\ (EmptyTable \/ HasNegative \/ BadIterations) => SyncRejected
          /\ EmptyTable => newErr.sync = errEmptyActions
          /\ (HasNegative /\ ~HasZero) => newErr.sync = errNegativeDuration
          /\ (BadIterations /\ ~EmptyTable /\ ~HasNegative /\ ~HasZero)
               => newErr.sync = errBadIterations
          /\ (~BadIterations /\ ~EmptyTable /\ ~HasNegative /\ ~HasZero)
               => (gs # NilGroup /\ GroupSync_Iterations(gs) = input.cfg.Iterations)
  /\ LooseCalled
       => /\ (EmptyTable \/ HasNegative \/ BadIterations) => LooseRejected
          /\ EmptyTable => newErr.loose = errEmptyActions
          /\ HasNegative => newErr.loose = errNegativeDuration
          /\ (BadIterations /\ ~EmptyTable /\ ~HasNegative)
               => newErr.loose = errBadIterations
          /\ (~BadIterations /\ ~EmptyTable /\ ~HasNegative)
               => (gl # NilGroup /\ GroupLoose_Iterations(gl) = input.cfg.Iterations)

\* C19 witness: both constructors were called with a table of two actions of
\* positive durations and an iteration count of -2, and both returned no
\* sequencer and the bad iterations error.
C19_Witness ==
  /\ SyncCalled /\ LooseCalled /\ Length = 2 /\ ~HasNegative /\ ~HasZero
  /\ input.cfg.Iterations = Infinite - 1
  /\ gs = NilGroup /\ gl = NilGroup
  /\ newErr = [sync |-> errBadIterations, loose |-> errBadIterations]

\* The constructors' part of C20, as a predicate of one state.
ZeroDurationAtConstruction ==
  (HasZero /\ ~HasNegative /\ ~EmptyTable /\ ~BadIterations)
    => /\ SyncCalled => (gs = NilGroup /\ newErr.sync = errZeroDuration)
       /\ LooseCalled => (gl # NilGroup /\ newErr.loose = Nil
                           /\ gl.actions = input.actions)

\* C20: a table with an action of duration exactly zero (no negative
\* duration, not empty, valid iterations) is rejected by the strict
\* constructor with the zero duration error and accepted by the loose one;
\* in the loose engine, once a zero-duration action was triggered, the next
\* poll at the same or a later instant advances: it triggers the action that
\* follows in the table, or returns done when the last action allowed by the
\* iteration count was that one.
C20_ZeroDuration ==
  [][/\ ZeroDurationAtConstruction'
     /\ (/\ Loose /\ Started /\ PollStep /\ h.trigs # <<>>
         /\ DurationOfValue(LastTrig) = 0 /\ op'.at >= h.trigAt)
          => IF Unbounded \/ Len(h.trigs) < Length * input.cfg.Iterations
               THEN res' = Result(input.actions[(Len(h.trigs) % Length) + 1].Value,
                                  TRUE,
                                  input.actions[(Len(h.trigs) % Length) + 1].Duration,
                                  Nil)
               ELSE res' = Done]_vars

\* C20 witness: a table whose first action has duration zero was rejected by
\* NewGroupSync with the zero duration error and accepted by NewGroupLoose;
\* the loose sequencer triggered the first action at its start instant and
\* the second action at the same instant.
C20_Witness ==
  /\ SyncCalled /\ gs = NilGroup /\ newErr.sync = errZeroDuration
  /\ Loose /\ LooseCalled /\ newErr.loose = Nil /\ Length = 2
  /\ input.actions[1].Duration = 0 /\ input.actions[2].Duration > 0
  /\ Started /\ Polled /\ op.at = h.begin /\ res.ok /\ h.trigs = <<1, 2>>

\* C21 (as claimed): either constructor, given an otherwise valid table,
\* returns a sequencer, and returns the small duration warning exactly when
\* some duration of the table is below one millisecond (no error otherwise).
C21_SmallDurationWarningBoth ==
  /\ (SyncCalled /\ ValidForSync)
       => (gs # NilGroup
           /\ newErr.sync = IF HasSmall THEN ErrSmallDuration ELSE Nil)
  /\ (LooseCalled /\ ValidForLoose)
       => (gl # NilGroup
           /\ newErr.loose = IF HasSmall THEN ErrSmallDuration ELSE Nil)

\* C21 (amended): the strict constructor, given an otherwise valid table,
\* returns a sequencer, and returns the small duration warning exactly when
\* some duration is below one millisecond (no error otherwise); the loose
\* constructor, given an otherwise valid table, returns a sequencer and no
\* error, whether or not some duration is below one millisecond: it never
\* returns the warning.
C21_SmallDurationWarningStrictOnly ==
  /\ (SyncCalled /\ ValidForSync)
       => (gs # NilGroup /\ gs.actions = input.actions
           /\ newErr.sync = IF HasSmall THEN ErrSmallDuration ELSE Nil)
  /\ (LooseCalled /\ ValidForLoose)
       => (gl # NilGroup /\ gl.actions = input.actions /\ newErr.loose = Nil)
  /\ newErr.loose # ErrSmallDuration

\* C21 witness: a table with one duration of one time unit and one of a
\* millisecond was given to both constructors: NewGroupSync returned a
\* sequencer and the warning, NewGroupLoose a sequencer and no error, and the
\* loose sequencer has since triggered its first action.
C21_Witness ==
  /\ SyncCalled /\ LooseCalled /\ ValidForSync /\ Length = 2
  /\ input.actions[1].Duration = 1 /\ input.actions[2].Duration = Millisecond
  /\ gs # NilGroup /\ newErr.sync = ErrSmallDuration
  /\ gl # NilGroup /\ newErr.loose = Nil
  /\ Loose /\ Started /\ Polled /\ res.ok /\ h.trigs = <<1>>

\* C22: both engines: the done signal is unambiguous.  A poll of a begun
\* sequencer made before the start instant, or while the current action's
\* window is not over, returns ok = false, no error and next > 0; a poll that
\* returns ok = false, no error and next = 0 is made when the schedule is over
\* (strict: the N cycles have run out; loose: all length * N actions were
\* triggered); and once a poll has returned ok = false with next = 0 (done, or
\* an error), no poll at the same or a later instant triggers an action
\* until Begins.
C22_DoneIsUnambiguous ==
  [][PollStep =>
       /\ (Started /\ ~h.missed /\ op'.at < h.begin)
            => (~res'.ok /\ res'.err = Nil /\ res'.next > 0)
       /\ (Sync /\ Started /\ op'.at >= h.begin /\ ~RanOutAt(op'.at)
             /\ ~res'.ok /\ res'.err = Nil)
            => res'.next > 0
       /\ (Loose /\ Started /\ h.trigs # <<>>
             /\ op'.at - h.trigAt < DurationOfValue(LastTrig))
            => (~res'.ok /\ res'.err = Nil /\ res'.next > 0)
       /\ (Started /\ ~res'.ok /\ res'.err = Nil /\ res'.next = 0)
            => /\ Bounded
               /\ Sync => RanOutAt(op'.at)
               /\ Loose => Len(h.trigs) = Length * input.cfg.Iterations
       /\ (\/ (h.stopAt # NoInstant /\ op'.at >= h.stopAt)
           \/ h.missed
           \/ ~Started)
            => (~res'.ok /\ res'.next = 0 /\ h'.trigs = h.trigs)]_vars

\* C22 witness: the strict engine returned done, was then polled at an
\* earlier instant and triggered an action, and polled again at an instant
\* later than the first done it returns done.
C22_Witness ==
  /\ Sync /\ Bounded /\ Started /\ Polled /\ res = Done /\ Len(h.trigs) >= 1
  /\ h.stopAt # NoInstant /\ h.doneAt > h.stopAt /\ op.at > h.stopAt

C24_NextIsEndOfNominalWindow ==
  (Sync /\ Started /\ Polled /\ ElapsedAt(op.at) >= 0
     /\ res.err = Nil /\ res # Done)
    => LET w == WindowOf(op.at)
           into == ElapsedAt(op.at) - WindowStart(input.actions, w)
           a == input.actions[(w % Length) + 1]
       IN /\ res.next = h.begin + WindowStart(input.actions, w + 1) - op.at
          /\ res.next = a.Duration - into
          /\ res.next > 0 /\ res.next <= a.Duration
          /\ res.ok => res.v = a.Value
          /\ (res.ok /\ into > 0) => res.next < a.Duration

\* C24 witness: the strict engine, in its second cycle or later, has
\* triggered an action of duration 2 one time unit after the start of its
\* window and returned next = 1.
C24_Witness ==
  /\ Sync /\ Started /\ Polled /\ ElapsedAt(op.at) > Cycle /\ Length >= 2
  /\ res.ok /\ res.err = Nil /\ DurationOfValue(res.v) = 2 /\ res.next = 1

\* C25: strict engine: lastIdx is always one of -1, 0, ..., length - 1.  A
\* poll that returns ok = true triggers index 0 when it is the first trigger
\* since Begins, and otherwise the index after the one triggered before it
\* (modulo the table length while repetition is active, without wrap-around
\* when it is not), and lastIdx becomes that index.  A poll inside the
\* schedule whose window has an index that is neither lastIdx nor that next
\* index returns the missed action error and sets failed, without triggering
\* and without moving lastIdx.
C25_TriggersInSuccession ==
  [][Sync =>
       /\ gs.lastIdx \in -1..(Length - 1) /\ gs'.lastIdx \in -1..(Length - 1)
       /\ (Started /\ PollStep /\ res'.ok)
            => LET i == IndexOfValue(input.actions, res'.v) IN
               /\ gs'.lastIdx = i
               /\ h.trigs = <<>> => (i = 0 /\ gs.lastIdx = -1)
               /\ h.trigs # <<>>
                    => LET p == IndexOfValue(input.actions, LastTrig) IN
                       /\ gs.lastIdx = p
                       /\ i = IF RepetitionActiveAt(op'.at)
                                THEN (p + 1) % Length ELSE p + 1
       /\ (Started /\ PollStep /\ ~h.missed
             /\ op'.at >= h.begin /\ ~RanOutAt(op'.at))
            => LET c == WindowOf(op'.at) % Length
                   legit == IF RepetitionActiveAt(op'.at)
                              THEN (gs.lastIdx + 1) % Length ELSE gs.lastIdx + 1
               IN /\ (c # gs.lastIdx /\ c = legit) => res'.ok
                  /\ (c # gs.lastIdx /\ c # legit)
                       => /\ res' = Result(ZeroValue, FALSE, 0, errMissedAction)
                          /\ gs' = [gs EXCEPT !.failed = TRUE]
                          /\ h'.trigs = h.trigs]_vars

\* C25 witness: the strict engine, unbounded, with a table of two actions, has
\* triggered action 0, action 1 and, wrapping around, action 0 again.
C25_Witness ==
  /\ Sync /\ Unbounded /\ Length = 2 /\ Started /\ Polled /\ res.ok
  /\ h.trigs = <<1, 2, 1>> /\ gs.lastIdx = 0 /\ ~gs.failed

C27_LooseFirstPollTriggers ==
  [][(Loose /\ Started /\ PollStep /\ (~h.polled \/ h.early)
       /\ op'.at >= h.begin)
     => /\ res' = Result(input.actions[1].Value, TRUE,
                         input.actions[1].Duration, Nil)
        /\ gl' = [gl EXCEPT !.lastActionStart = op'.at, !.lastIdx = 0]
        /\ gl.lastIdx = -1
        /\ h'.trigs = <<input.actions[1].Value>>]_vars

\* C27 witness: a loose sequencer with one iteration of a table of two
\* actions was first polled more than two cycle durations after its start
\* instant and triggered action 0 with its full duration as next.
C27_Witness ==
  /\ Loose /\ input.cfg.Iterations = 1 /\ Length = 2 /\ Cycle > 0
  /\ Started /\ Polled /\ ElapsedAt(op.at) > 2 * Cycle
  /\ h.trigs = <<1>> /\ h.trigAt = op.at /\ res.ok
  /\ res.next = input.actions[1].Duration
  /\ gl.lastIdx = 0 /\ gl.lastActionStart = op.at

\* C28: loose engine: a poll triggers at most one action, and lastIdx moves
\* by exactly one when it triggers and not at all when it does not; the j-th
\* triggering poll since Begins (j = 0, 1, 2, ...) returns the value of action
\* j mod length and that action's full declared duration as next, however
\* late the poll comes and also when durations, or all of them, are zero: no
\* value is skipped.
C28_LooseOneActionPerPoll ==
  [][(Loose /\ Started /\ PollStep)
     => LET j == Len(h.trigs)
            a == input.actions[(j % Length) + 1]
        IN /\ gl.lastIdx = j - 1
           /\ gl'.lastIdx = IF res'.ok THEN j ELSE j - 1
           /\ res'.ok => res' = Result(a.Value, TRUE, a.Duration, Nil)
           /\ h'.trigs = IF res'.ok THEN Append(h.trigs, a.Value) ELSE h.trigs
           /\ res'.err = Nil]_vars

\* C28 witness: a loose sequencer, unbounded, whose two actions both have
\* duration zero, was polled after its start instant and has triggered
\* actions 0, 1, 0, 1 in turn.
C28_Witness ==
  /\ Loose /\ Unbounded /\ Length = 2 /\ Cycle = 0 /\ Started /\ Polled
  /\ ElapsedAt(op.at) > 0 /\ res.ok /\ res.next = 0
  /\ h.trigs = <<1, 2, 1, 2>> /\ gl.lastIdx = 3

\* C29: frame of a poll.  In both engines a poll that returns ok = false and
\* no error (waiting, not yet due, done) changes nothing of the sequencer.
\* Strict engine: a poll changes lastIdx, to the index it triggers, when it
\* returns ok = true; it sets failed, and leaves lastIdx alone, when it
\* returns the missed action error; and it changes nothing otherwise.  Loose
\* engine: a poll changes lastIdx (by one) and lastActionStart (to the poll
\* instant) when it returns ok = true, and nothing otherwise.
C29_FrameOfPoll ==
  [][PollStep =>
       /\ (~res'.ok /\ res'.err = Nil) => (gs' = gs /\ gl' = gl)
       /\ Sync => gs' = IF res'.ok
                           THEN [gs EXCEPT !.lastIdx = IndexOfValue(input.actions, res'.v)]
                         ELSE IF res'.err = errMissedAction
                           THEN [gs EXCEPT !.failed = TRUE]
                         ELSE gs
       /\ (Sync /\ res'.err = errMissedAction) => (~gs.failed /\ gs'.lastIdx = gs.lastIdx)
       /\ Loose => gl' = IF res'.ok
                            THEN [gl EXCEPT !.lastIdx = gl.lastIdx + 1,
                                            !.lastActionStart = op'.at]
                          ELSE gl]_vars

\* C29 witness: the strict engine with a table of three actions triggered
\* action 0 and then returned the missed action error: failed is set and
\* lastIdx is still 0.
C29_Witness ==
  /\ Sync /\ Length = 3 /\ Started /\ Polled /\ h.trigs = <<1>>
  /\ res = Result(ZeroValue, FALSE, 0, errMissedAction)
  /\ gs.failed /\ gs.lastIdx = 0 /\ gs.start = h.begin

\* C30: both engines, positive iteration count: when the caller keeps polling
\* at instants that increase, eventually a poll returns done or, strict
\* engine only, an error; in the loose engine done comes when every one of
\* the length * N actions has been triggered, in table order.
C30_BoundedScheduleTerminates ==
  <>(/\ Polled
     /\ Sync => (res = Done \/ res.err \in {errMissedAction, errGroupFailed})
     /\ Loose => /\ res = Done
                 /\ h.trigs = CyclicValues(Length * input.cfg.Iterations))

\* C30 witness: the loose engine with two iterations of a table of three
\* actions, polled at increasing instants, some of them two time units
\* apart, has triggered all six actions and returned done.
C30_Witness ==
  /\ Loose /\ input.cfg.Iterations = 2 /\ Length = 3 /\ Cycle >= 3
  /\ Started /\ Polled /\ h.mono /\ ~h.unit
  /\ res = Done /\ h.trigs = <<1, 2, 3, 1, 2, 3>>

\* C31: for any table with all durations >= 1 and any iteration setting, a
\* strict and a loose sequencer begun at the same instant and polled at every
\* time unit from elapsed 0 return identical results (value, ok, next, error)
\* at every poll.
C31_EnginesAgreeUnderUnitPolling ==
  (kind = "both" /\ Started /\ Polled /\ h.unit /\ PositiveDurations)
    => res = tw.r

\* C32: both engines: the stored start instant is the zero instant until
\* Begins is called and the instant given to the last Begins after that, and
\* a poll returns the not started error if and only if the stored start
\* instant is the zero instant.  So after Begins with the zero instant every
\* poll returns not started, and after Begins with any other instant no poll
\* does, until the next Begins.
C32_NotStartedIffZeroStart ==
  LET start == IF Sync THEN GroupSync_StartTime(gs) ELSE GroupLoose_StartTime(gl) IN
  (Sync \/ Loose) =>
    /\ start = IF NeverBegun THEN ZeroTime ELSE h.begin
    /\ Polled => /\ res.err = errBeginNotCalled <=> IsZero(start)
                 /\ res.err = errBeginNotCalled => res = NotStarted
    /\ (Polled /\ h.begin = ZeroTime) => res = NotStarted /\ h.trigs = <<>>
    /\ (Polled /\ Started) => res.err # errBeginNotCalled

\* C32 witness: a loose sequencer that was begun and ran to done was begun
\* again with the zero instant, and the poll after that returned not started.
C32_Witness ==
  /\ Loose /\ h.from = "done" /\ h.begin = ZeroTime
  /\ Polled /\ op.at > ZeroTime /\ res = NotStarted

\* C33: strict engine: the final fallback of scheduleNext is unreachable.  In
\* every reachable state and for every poll instant at or after the stored
\* start, an index that passes the "same index", "missed action" and "done"
\* tests satisfies the "it is time for the next action" test; and no poll
\* has returned the unexpected index error.
C33_FallbackUnreachable ==
  Sync =>
    /\ \A now \in Instants :
         LET elapsed0 == Sub(now, gs.start)
             restart == restartActive(gs, elapsed0)
             elapsed == IF restart THEN Rem(elapsed0, GroupSync_Duration(gs))
                                   ELSE elapsed0
             nextIdx == currentIdx(gs.actions, elapsed).idx
         IN
         (/\ elapsed0 >= 0
          /\ nextIdx # gs.lastIdx
          /\ ~missedAction(gs, nextIdx, restart)
          /\ nextIdx # -1)
           => timeForNext(gs, nextIdx, restart)
    /\ res.err # errUnexpectedNextIdx
    /\ GroupSync_ScheduleNext(gs, op.at).r.err # errUnexpectedNextIdx

\* C33 witness: a strict sequencer with repetition, polled at the first
\* instant of its second traversal with the last action of the table as its
\* position, passed the three tests by the wrap-around case and triggered
\* action 0 again.
C33_Witness ==
  /\ Sync /\ Started /\ Polled /\ Length >= 2
  /\ RepetitionActiveAt(op.at) /\ ElapsedAt(op.at) = Cycle
  /\ res.ok /\ res.v = input.actions[1].Value
  /\ Len(h.trigs) = Length + 1 /\ gs.lastIdx = 0
====
